---- MODULE Spec2Model ----
(***************************************************************************)
(* Model of package gtest (src/gtest.go): the fixture registry with its    *)
(* contract validation, the recursive fixture resolver, and RunSubTests.   *)
(*                                                                         *)
(* Go types are modelled by what reflect reports about them: String(),     *)
(* Kind(), the fields of a struct and the method set.  A method's function *)
(* type lists the receiver as In(0), as reflect.Type.Method does, so the   *)
(* TLA+ sequence index is the Go index plus one.                           *)
(***************************************************************************)
EXTENDS Integers, Sequences, FiniteSets, TLC

(***************************************************************************)
(* Bounds of the model.                                                    *)
(***************************************************************************)
\* Deepest nesting of resolve calls that is followed; one more call is
\* reported as status "overflow" (the goroutine's stack is exhausted).
MaxDepth == 3

(***************************************************************************)
(* Constants of src/gtest.go.                                              *)
(***************************************************************************)
ScopeSubTest == "subtest"
ScopeCall == "call"
FixtureScope == {ScopeSubTest, ScopeCall}
testMethodPrefix == "SubTest"

(***************************************************************************)
(* reflect.Type values.                                                    *)
(***************************************************************************)
Type(str, kind, fields) == [str |-> str, kind |-> kind, fields |-> fields]
TestingT == Type("*testing.T", "ptr", << >>)
EmptyInterface == Type("interface {}", "interface", << >>)
StringT == Type("string", "string", << >>)
IntT == Type("int", "int", << >>)
ErrorT == Type("error", "interface", << >>)
\* A struct field: Tag is the name given by its `fixture:"..."` tag, NoTag
\* when the tag has no fixture key, BadTag when the tag does not parse;
\* Exported is what reflect.Value.CanSet reports for the field.
NoTag == "<no fixture tag>"
BadTag == "<malformed tag>"
Field(name, tag, exported) == [Name |-> name, Tag |-> tag, Exported |-> exported]
StructT(fields) == Type("struct {...}", "struct", fields)
\* A function type: In and Out, the receiver included in In.
Func(in, out) == [In |-> in, Out |-> out]
Recv == Type("receiver", "struct", << >>)

(***************************************************************************)
(* The fixture instances of the test programs, by the method set of their  *)
(* type (reflect.TypeOf(f)).                                               *)
(***************************************************************************)
ValidDestruct == Func(<<Recv, TestingT, EmptyInterface>>, << >>)
Methods(construct, destruct) == [Construct |-> construct, Destruct |-> destruct]
\* src/gtest_test.go:22-37
UserIdFixture ==
  Methods(Func(<<Recv, TestingT, StructT(<< >>)>>, <<StringT, EmptyInterface>>),
          ValidDestruct)
\* src/gtest_test.go:44-58
MockUserFixture ==
  Methods(Func(<<Recv, TestingT,
                 StructT(<<Field("UserId", "UserId", TRUE)>>)>>,
               <<StringT, EmptyInterface>>),
          ValidDestruct)
\* src/gtest_test.go:67-84
MockCommentFixture ==
  Methods(Func(<<Recv, TestingT,
                 StructT(<<Field("User", "MockUser", TRUE)>>)>>,
               <<StringT, EmptyInterface>>),
          ValidDestruct)
\* src/gtest_test.go:227
InvalidFixtureMissingConstruct == << >>
\* src/gtest_test.go:229-231
InvalidFixtureConstructInput == [Construct |-> Func(<<Recv>>, << >>)]
\* src/gtest_test.go:233-235
InvalidFixtureConstructInput1 ==
  [Construct |-> Func(<<Recv, TestingT, StringT>>, << >>)]
\* src/gtest_test.go:237-241
InvalidFixtureConstructInput2 ==
  [Construct |-> Func(<<Recv, TestingT, StringT>>, <<StringT, EmptyInterface>>)]
\* src/gtest_test.go:243-247
InvalidFixtureConstructInput3 ==
  [Construct |-> Func(<<Recv, IntT, StructT(<< >>)>>, <<StringT, EmptyInterface>>)]
ValidConstruct == Func(<<Recv, TestingT, StructT(<< >>)>>, <<StringT, EmptyInterface>>)
\* src/gtest_test.go:249-253
InvalidFixtureMissingDestruct == [Construct |-> ValidConstruct]
\* src/gtest_test.go:255-260
InvalidFixtureDestructInput ==
  Methods(ValidConstruct, Func(<<Recv, StringT>>, << >>))
\* src/gtest_test.go:262-267
InvalidFixtureDestructOutput1 ==
  Methods(ValidConstruct, Func(<<Recv, StringT, EmptyInterface>>, << >>))
\* src/gtest_test.go:269-274
InvalidFixtureDestructOutput2 ==
  Methods(ValidConstruct, Func(<<Recv, TestingT, StructT(<< >>)>>, << >>))
\* src/example_test.go:15-29: Destruct takes the concrete type of the
\* second value Construct returns.
WorkDirFixture ==
  Methods(Func(<<Recv, TestingT, StructT(<< >>)>>, <<StringT, StringT>>),
          Func(<<Recv, TestingT, StringT>>, << >>))
\* A fixture whose Destruct takes (*testing.T, interface{}) and returns an
\* error: Destruct(t *testing.T, ctx interface{}) error.
DestructReturnsFixture ==
  Methods(ValidConstruct, Func(<<Recv, TestingT, EmptyInterface>>, <<ErrorT>>))

\* The instances a test program may pass to RegisterFixture, by identity.
WellFormed == {"UserIdFixture", "MockUserFixture", "MockCommentFixture"}
Malformed ==
  {"InvalidFixtureMissingConstruct", "InvalidFixtureConstructInput",
   "InvalidFixtureConstructInput1", "InvalidFixtureConstructInput2",
   "InvalidFixtureConstructInput3", "InvalidFixtureMissingDestruct",
   "InvalidFixtureDestructInput", "InvalidFixtureDestructOutput1",
   "InvalidFixtureDestructOutput2"}
Instances == WellFormed \cup Malformed \cup {"WorkDirFixture", "DestructReturnsFixture"}
\* reflect.TypeOf(f): the method set of the instance's type.
TypeOf(f) ==
  CASE f = "UserIdFixture" -> UserIdFixture
    [] f = "MockUserFixture" -> MockUserFixture
    [] f = "MockCommentFixture" -> MockCommentFixture
    [] f = "InvalidFixtureMissingConstruct" -> InvalidFixtureMissingConstruct
    [] f = "InvalidFixtureConstructInput" -> InvalidFixtureConstructInput
    [] f = "InvalidFixtureConstructInput1" -> InvalidFixtureConstructInput1
    [] f = "InvalidFixtureConstructInput2" -> InvalidFixtureConstructInput2
    [] f = "InvalidFixtureConstructInput3" -> InvalidFixtureConstructInput3
    [] f = "InvalidFixtureMissingDestruct" -> InvalidFixtureMissingDestruct
    [] f = "InvalidFixtureDestructInput" -> InvalidFixtureDestructInput
    [] f = "InvalidFixtureDestructOutput1" -> InvalidFixtureDestructOutput1
    [] f = "InvalidFixtureDestructOutput2" -> InvalidFixtureDestructOutput2
    [] f = "WorkDirFixture" -> WorkDirFixture
    [] f = "DestructReturnsFixture" -> DestructReturnsFixture
\* fType.MethodByName(name): whether the method set has it.
HasMethod(fType, name) == name \in DOMAIN fType
NumIn(fn) == Len(fn.In)
NumOut(fn) == Len(fn.Out)
\* fn.In(i) of Go.
In(fn, i) == fn.In[i + 1]

\* The fixture names of the test programs.
Names == {"UserId", "MockUser"}

(***************************************************************************)
(* Contract validation, src/gtest.go:48-94.  The result is "nil" or the    *)
(* kind of the error returned.                                             *)
(***************************************************************************)
validateFixtureConstructMethod(fType) ==
  IF ~HasMethod(fType, "Construct") THEN "MissingConstruct"
  ELSE LET constructMethod == fType.Construct IN
    IF NumIn(constructMethod) # 3 THEN "ConstructNumIn"
    ELSE IF NumOut(constructMethod) # 2 THEN "ConstructNumOut"
    ELSE IF In(constructMethod, 1).str # "*testing.T" THEN "ConstructArg1"
    ELSE IF In(constructMethod, 2).kind # "struct" THEN "ConstructArg2"
    ELSE "nil"

\* Mutant: the type of Destruct's second parameter is not checked.
validateFixtureDestructMethodAnyContext(fType) ==
  IF ~HasMethod(fType, "Destruct") THEN "MissingDestruct"
  ELSE LET destructMethod == fType.Destruct IN
    IF NumIn(destructMethod) # 3 THEN "DestructNumIn"
    ELSE IF In(destructMethod, 1).str # "*testing.T" THEN "DestructArg1"
    ELSE "nil"

validateFixtureDestructMethod(fType) ==
  IF ~HasMethod(fType, "Destruct") THEN "MissingDestruct"
  ELSE LET destructMethod == fType.Destruct IN
    IF NumIn(destructMethod) # 3 THEN "DestructNumIn"
    ELSE IF In(destructMethod, 1).str # "*testing.T" THEN "DestructArg1"
    ELSE IF In(destructMethod, 2).str # "interface {}" THEN "DestructArg2"
    ELSE "nil"

(***************************************************************************)
(* The test groups handed to RunSubTests.  A group is the method list of   *)
(* its type as reflect.Type.Method(i) enumerates it: exported methods in   *)
(* lexical order, the four hooks of interface GTest among them.  A method  *)
(* name is the sequence of its words, so that strings.HasPrefix and        *)
(* strings.TrimPrefix act on it; In lists the receiver first.              *)
(***************************************************************************)
Method(name, in) == [Name |-> name, In |-> in]
Hook(name) == Method(<<name>>, <<Recv, TestingT>>)
\* Mutant: the prefix is looked for anywhere in the name.
HasPrefixAnywhere(s, prefix) == \E p \in 1..Len(s) : s[p] = prefix
HasPrefix(s, prefix) == Len(s) >= 1 /\ s[1] = prefix
TrimPrefix(s, prefix) == IF HasPrefix(s, prefix) THEN Tail(s) ELSE s

\* After src/gtest_test.go:143-225: a case referencing one fixture three
\* times, a case using a nested fixture, a case without fixtures.
GTestTests ==
  << Hook("AfterEach"), Hook("BeforeEach"), Hook("Setup"),
     Method(<<"SubTest", "CallScopedStringFixture">>,
            <<Recv, TestingT,
              StructT(<<Field("UserId1", "UserId", TRUE),
                        Field("UserId2", "UserId", TRUE),
                        Field("UserId3", "UserId", TRUE)>>)>>),
     Method(<<"SubTest", "NestedFixture">>,
            <<Recv, TestingT, StructT(<<Field("User", "MockUser", TRUE)>>)>>),
     Method(<<"SubTest", "RunTest">>, <<Recv, TestingT>>),
     Hook("Teardown") >>
\* After src/example_test.go:55-96: two cases without fixtures, then a case
\* that references one fixture once and another twice.
SampleTests ==
  << Hook("AfterEach"), Hook("BeforeEach"), Hook("Setup"),
     Method(<<"SubTest", "Compare">>, <<Recv, TestingT>>),
     Method(<<"SubTest", "MultipleFixtures">>,
            <<Recv, TestingT,
              StructT(<<Field("DirPath", "MockUser", TRUE),
                        Field("Uid1", "UserId", TRUE),
                        Field("Uid2", "UserId", TRUE)>>)>>),
     Hook("Teardown") >>
\* A group with methods that are not test cases next to its test cases:
\* HelperSubTest and TestSubTest hold the prefix elsewhere in their name,
\* Subtest differs from it by case; SubTest is the prefix alone and
\* SubTestsFoo a longer word starting with it (src/gtest.go:247 tests the
\* prefix only).
MixedTests ==
  << Hook("AfterEach"), Hook("BeforeEach"),
     Method(<<"Helper", "SubTest">>,
            <<Recv, TestingT, StructT(<<Field("User", "MockUser", TRUE)>>)>>),
     Hook("Setup"),
     Method(<<"SubTest">>, <<Recv, TestingT>>),
     Method(<<"SubTest", "sFoo">>,
            <<Recv, TestingT,
              StructT(<<Field("Uid", "UserId", TRUE),
                        Field("User", "MockUser", TRUE)>>)>>),
     Method(<<"Subtest">>, <<Recv, TestingT>>),
     Hook("Teardown"),
     Method(<<"Test", "SubTest">>, <<Recv, TestingT>>) >>
\* Groups with a test method whose signature src/gtest.go:253-277 refuses,
\* between a case without fixtures and a case with one: SubTestB().
NoParameterTests ==
  << Hook("AfterEach"), Hook("BeforeEach"), Hook("Setup"),
     Method(<<"SubTest", "A">>, <<Recv, TestingT>>),
     Method(<<"SubTest", "B">>, <<Recv>>),
     Method(<<"SubTest", "C">>,
            <<Recv, TestingT, StructT(<<Field("Uid", "UserId", TRUE)>>)>>),
     Hook("Teardown") >>
\* SubTestB(fixtures struct{...}, t *testing.T).
FirstParameterTests ==
  << Hook("AfterEach"), Hook("BeforeEach"), Hook("Setup"),
     Method(<<"SubTest", "A">>, <<Recv, TestingT>>),
     Method(<<"SubTest", "B">>,
            <<Recv, StructT(<<Field("Uid", "UserId", TRUE)>>), TestingT>>),
     Method(<<"SubTest", "C">>,
            <<Recv, TestingT, StructT(<<Field("Uid", "UserId", TRUE)>>)>>),
     Hook("Teardown") >>
\* SubTestB(t *testing.T, fixtures struct{...}, n int).
TooManyParametersTests ==
  << Hook("AfterEach"), Hook("BeforeEach"), Hook("Setup"),
     Method(<<"SubTest", "A">>, <<Recv, TestingT>>),
     Method(<<"SubTest", "B">>,
            <<Recv, TestingT, StructT(<<Field("Uid", "UserId", TRUE)>>), IntT>>),
     Method(<<"SubTest", "C">>,
            <<Recv, TestingT, StructT(<<Field("Uid", "UserId", TRUE)>>)>>),
     Hook("Teardown") >>
\* Groups with a test case whose shape src/gtest.go:161-228 refuses, between
\* two cases without fixtures: a field without a fixture tag between two
\* tagged fields.
MissingTagTests ==
  << Hook("AfterEach"), Hook("BeforeEach"), Hook("Setup"),
     Method(<<"SubTest", "A">>, <<Recv, TestingT>>),
     Method(<<"SubTest", "B">>,
            <<Recv, TestingT,
              StructT(<<Field("Uid", "UserId", TRUE),
                        Field("Plain", NoTag, TRUE),
                        Field("User", "MockUser", TRUE)>>)>>),
     Method(<<"SubTest", "C">>, <<Recv, TestingT>>),
     Hook("Teardown") >>
\* A field that is not exported between two exported fields.
UnexportedFieldTests ==
  << Hook("AfterEach"), Hook("BeforeEach"), Hook("Setup"),
     Method(<<"SubTest", "A">>, <<Recv, TestingT>>),
     Method(<<"SubTest", "B">>,
            <<Recv, TestingT,
              StructT(<<Field("Uid", "UserId", TRUE),
                        Field("user", "MockUser", FALSE),
                        Field("Uid2", "UserId", TRUE)>>)>>),
     Method(<<"SubTest", "C">>, <<Recv, TestingT>>),
     Hook("Teardown") >>
Groups ==
  {"GTestTests", "SampleTests", "MixedTests", "NoParameterTests",
   "FirstParameterTests", "TooManyParametersTests", "MissingTagTests",
   "UnexportedFieldTests"}
\* reflect.TypeOf(gt): the method list of the group.
GroupType(g) ==
  CASE g = "GTestTests" -> GTestTests
    [] g = "SampleTests" -> SampleTests
    [] g = "MixedTests" -> MixedTests
    [] g = "NoParameterTests" -> NoParameterTests
    [] g = "FirstParameterTests" -> FirstParameterTests
    [] g = "TooManyParametersTests" -> TooManyParametersTests
    [] g = "MissingTagTests" -> MissingTagTests
    [] g = "UnexportedFieldTests" -> UnexportedFieldTests
    [] OTHER -> << >>
NumMethod(g) == Len(GroupType(g))

(***************************************************************************)
(* The observable events of a run, in the order they happen.  c is the     *)
(* index of the test method concerned (0: the group), t the execution      *)
(* handle passed (0: the group's, i: the handle of the sub-test of method  *)
(* i), who the fixture instance (or, for Fatalf, the kind of error, for    *)
(* Body, what the body did with its handle), id the number of the          *)
(* Construct invocation: Construct returns the value id and the teardown   *)
(* context id, Destruct is passed a context.  val is the dependency value  *)
(* passed to Construct or to the body; scope and caller are the scope of   *)
(* the registry entry a Construct invocation was made for and the caller   *)
(* resolve was given; for the events of a sub-test name is the name t.Run  *)
(* was given.                                                              *)
(***************************************************************************)
Ev(ev, c, who, t, id, val) ==
  [ev |-> ev, c |-> c, who |-> who, t |-> t, id |-> id, val |-> val,
   scope |-> "-", caller |-> << >>, name |-> << >>]
SelectEv(log, ev) == SelectSeq(log, LAMBDA e : e.ev = ev)
\* The elements of a sequence.
Range(seq) == {seq[p] : p \in 1..Len(seq)}
NumConstructs(log) == Len(SelectEv(log, "Construct"))

(***************************************************************************)
(* fixtureResolver, src/gtest.go:138-231.  The resolver state threaded     *)
(* through resolve: the cache Resolved (instance -> value), the cleanup    *)
(* list, the log, the status ("ok", "fatal" once t.Fatalf has ended the    *)
(* calling goroutine, "overflow" on unbounded recursion) and the value     *)
(* returned.                                                               *)
(***************************************************************************)
\* Mutant: one resolver serves all test cases, so the cache still holds
\* what was constructed under ScopeSubTest for the cases before.
newFixtureResolverShared(log) ==
  LET made == {e \in Range(SelectEv(log, "Construct")) : e.scope = ScopeSubTest}
  IN [Resolved |-> [f \in {e.who : e \in made} |->
                      CHOOSE id \in {e.id : e \in made} :
                        \E e \in made : e.who = f /\ e.id = id
                          /\ \A e2 \in made : e2.who = f => e2.id <= id],
      cleanUpCbs |-> << >>, log |-> log, status |-> "ok", val |-> << >>]

newFixtureResolver(log) ==
  [Resolved |-> << >>, cleanUpCbs |-> << >>, log |-> log,
   status |-> "ok", val |-> << >>]

\* Mutant: the failure is recorded and resolve goes on, as with t.Errorf.
FatalfReturns(self, c, kind) ==
  [self EXCEPT !.log = Append(@, Ev("Fatalf", c, kind, 0, 0, << >>))]

\* t.Fatalf on the handle resolve was given: the failure is recorded and
\* the calling goroutine ends (runtime.Goexit), nothing after it runs.
Fatalf(self, c, kind) ==
  [self EXCEPT !.status = "fatal",
               !.log = Append(@, Ev("Fatalf", c, kind, 0, 0, << >>))]

\* Mutant: every closure holds the context of the first construction.
CleanUpCbFirstContext(f, t, ctxVal) == [f |-> f, t |-> t, ctxVal |-> 1]

\* src/gtest.go:209-215: the cleanup closure appended for a construction.
CleanUpCb(f, t, ctxVal) == [f |-> f, t |-> t, ctxVal |-> ctxVal]

\* Mutant: the cache is never hit.
CacheHitNever(self, fentry) == FALSE

\* Mutant: the cache is consulted whatever the scope of the entry.
CacheHitAnyScope(self, fentry) == fentry.Instance \in DOMAIN self.Resolved

\* src/gtest.go:184-189: the cache is consulted for ScopeSubTest only.
CacheHit(self, fentry) ==
  fentry.Scope = ScopeSubTest /\ fentry.Instance \in DOMAIN self.Resolved

\* Mutant: the constructed value is cached whatever the scope of the entry.
CacheAnyScope(cache, fentry, valVal) == (fentry.Instance :> valVal) @@ cache

\* Mutant: the constructed value is never cached.
CacheNothing(cache, fentry, valVal) == cache

\* src/gtest.go:217-219: the value is cached for ScopeSubTest only.
Cache(cache, fentry, valVal) ==
  IF fentry.Scope = ScopeSubTest THEN (fentry.Instance :> valVal) @@ cache
  ELSE cache

\* Mutant: the cleanup closure is put in front of the cleanup list.
ConstructCleanUpInFront(self, c, caller, fentry, deps) ==
  LET f == fentry.Instance
      id == NumConstructs(self.log) + 1
  IN [self EXCEPT
        !.log = Append(@, [Ev("Construct", c, f, 0, id, deps)
                           EXCEPT !.scope = fentry.Scope, !.caller = caller]),
        !.cleanUpCbs = <<CleanUpCb(f, 0, id)>> \o @,
        !.Resolved = Cache(@, fentry, id),
        !.val = id]

\* Mutant: no cleanup closure is appended for the construction.
ConstructWithoutCleanUp(self, c, caller, fentry, deps) ==
  LET f == fentry.Instance
      id == NumConstructs(self.log) + 1
  IN [self EXCEPT
        !.log = Append(@, [Ev("Construct", c, f, 0, id, deps)
                           EXCEPT !.scope = fentry.Scope, !.caller = caller]),
        !.Resolved = Cache(@, fentry, id),
        !.val = id]

\* src/gtest.go:204-219: call Construct with the resolved dependencies,
\* append the cleanup closure, cache the value.
Construct(self, c, caller, fentry, deps) ==
  LET f == fentry.Instance
      id == NumConstructs(self.log) + 1
  IN [self EXCEPT
        !.log = Append(@, [Ev("Construct", c, f, 0, id, deps)
                           EXCEPT !.scope = fentry.Scope, !.caller = caller]),
        !.cleanUpCbs = Append(@, CleanUpCb(f, 0, id)),
        !.Resolved = Cache(@, fentry, id),
        !.val = id]

RECURSIVE resolve(_, _, _, _, _, _)
RECURSIVE resolveFields(_, _, _, _, _, _, _, _)
RECURSIVE resolveFieldsLastFirst(_, _, _, _, _, _, _, _)

\* src/gtest.go:176-220: the value for one field, in self.val.
resolveField(reg, c, caller, field, self, depth) ==
  IF field.Tag = BadTag THEN Fatalf(self, c, "InvalidTag")
  ELSE IF field.Tag = NoTag THEN Fatalf(self, c, "MissingTag")
  ELSE IF field.Tag \notin DOMAIN reg THEN Fatalf(self, c, "UnregisteredFixture")
  ELSE LET fentry == reg[field.Tag] IN
    IF CacheHit(self, fentry)
    THEN [self EXCEPT !.val = self.Resolved[fentry.Instance]]
    ELSE LET r == resolve(reg, c, <<fentry.Instance, "Construct">>,
                          In(TypeOf(fentry.Instance).Construct, 2),
                          self, depth + 1)
         IN IF r.status # "ok" THEN r
            ELSE Construct(r, c, caller, fentry, r.val)

\* Mutant: the fields are gone through from the last to the first.
resolveFieldsLastFirst(reg, c, caller, fields, j, fixturesVal, self, depth) ==
  IF j > Len(fields) THEN [self EXCEPT !.val = fixturesVal]
  ELSE LET jj == Len(fields) + 1 - j
           r == resolveField(reg, c, caller, fields[jj], self, depth) IN
    IF r.status # "ok" THEN r
    ELSE IF fields[jj].Exported
      THEN resolveFieldsLastFirst(reg, c, caller, fields, j + 1,
                                  [fixturesVal EXCEPT ![jj] = r.val], r, depth)
      ELSE Fatalf(r, c, "FieldNotAssignable")

\* src/gtest.go:161-228: the loop over the fields from field j on.
resolveFields(reg, c, caller, fields, j, fixturesVal, self, depth) ==
  IF j > Len(fields) THEN [self EXCEPT !.val = fixturesVal]
  ELSE LET r == resolveField(reg, c, caller, fields[j], self, depth) IN
    IF r.status # "ok" THEN r
    ELSE IF fields[j].Exported
      THEN resolveFields(reg, c, caller, fields, j + 1,
                         [fixturesVal EXCEPT ![j] = r.val], r, depth)
      ELSE Fatalf(r, c, "FieldNotAssignable")

\* src/gtest.go:153-231.
resolve(reg, c, caller, fixturesType, self, depth) ==
  IF depth > MaxDepth THEN [self EXCEPT !.status = "overflow"]
  ELSE IF fixturesType.kind # "struct" THEN Fatalf(self, c, "InvalidType")
  ELSE resolveFields(reg, c, caller, fixturesType.fields, 1,
                     [j \in 1..Len(fixturesType.fields) |-> 0], self, depth)

VARIABLES
  registeredFixtures, \* the registry: fixture name -> FixtureEntry
  regResult,          \* the last registration call and the error it returned
  pc,                 \* where the program is
  gt,                 \* the group RunSubTests was called with
  i,                  \* RunSubTests' index into the method list (from 1)
  Resolved,           \* the cache of the resolver of the current iteration
  cleanUpCbs,         \* the cleanup list of the current iteration
  callParams,         \* the fixtures value passed to the body, if any
  k,                  \* how many cleanup closures the sub-test has run
  failed,             \* the execution handles marked as failed
  log                 \* the events so far

vars == <<registeredFixtures, regResult, pc, gt, i, Resolved, cleanUpCbs,
          callParams, k, failed, log>>
runVars == <<gt, i, Resolved, cleanUpCbs, callParams, k, failed, log>>

FixtureEntry(scope, f) == [Scope |-> scope, Instance |-> f]
NoCall == [name |-> "-", f |-> "-", scope |-> "-", err |-> "-"]

\* Mutant: a name that is already registered is not refused.
RegisterErrorNoDuplicateCheck(reg, name, f) ==
  LET err == validateFixtureConstructMethod(TypeOf(f)) IN
    IF err # "nil" THEN err
    ELSE validateFixtureDestructMethod(TypeOf(f))

\* The error RegisterFixture(name, f, scope) returns, src/gtest.go:98-117.
RegisterError(reg, name, f) ==
  IF name \in DOMAIN reg THEN "AlreadyRegistered"
  ELSE LET err == validateFixtureConstructMethod(TypeOf(f)) IN
    IF err # "nil" THEN err
    ELSE validateFixtureDestructMethod(TypeOf(f))

\* Mutant: a successful registration drops the other entries.
RegisterEffectDropsOthers(reg, name, f, scope) ==
  IF RegisterError(reg, name, f) # "nil" THEN reg
  ELSE (name :> FixtureEntry(scope, f))

\* The registry after RegisterFixture(name, f, scope), src/gtest.go:98-123.
RegisterEffect(reg, name, f, scope) ==
  IF RegisterError(reg, name, f) # "nil" THEN reg
  ELSE (name :> FixtureEntry(scope, f)) @@ reg

\* GetFixture(name), src/gtest.go:133-136: the entry and whether it is there.
GetFixture(reg, name) ==
  IF name \in DOMAIN reg THEN <<reg[name], TRUE>>
  ELSE <<FixtureEntry("", "nil"), FALSE>>

RegisterFixture(name, f, scope) ==
  /\ pc = "init"
  /\ regResult' = [name |-> name, f |-> f, scope |-> scope,
                   err |-> RegisterError(registeredFixtures, name, f)]
  /\ registeredFixtures' = RegisterEffect(registeredFixtures, name, f, scope)
  /\ UNCHANGED <<pc, runVars>>

\* src/gtest.go:126-131: panics when RegisterFixture returns an error.
MustRegisterFixture(name, f, scope) ==
  /\ pc = "init"
  /\ regResult' = [name |-> name, f |-> f, scope |-> scope,
                   err |-> RegisterError(registeredFixtures, name, f)]
  /\ registeredFixtures' = RegisterEffect(registeredFixtures, name, f, scope)
  /\ pc' = IF RegisterError(registeredFixtures, name, f) # "nil"
           THEN "panic" ELSE "init"
  /\ UNCHANGED runVars

(***************************************************************************)
(* RunSubTests, src/gtest.go:234-296.  The group's goroutine runs Setup,   *)
(* then one LoopIteration per method; t.Run hands a case to the sub-test's *)
(* goroutine (BeforeEach, Body, CleanUp, AfterEach) and waits for it.      *)
(***************************************************************************)
\* src/gtest.go:236-239.
RunSubTests(g) ==
  /\ pc = "init"
  /\ gt' = g
  /\ i' = 1
  /\ log' = Append(log, Ev("Setup", 0, "-", 0, 0, << >>))
  /\ pc' = "loop"
  /\ regResult' = NoCall
  /\ UNCHANGED <<registeredFixtures, Resolved, cleanUpCbs, callParams, k, failed>>

\* Mutant: the failure is reported and the loop goes on to the next method.
AbortAndContinue(kind) ==
  /\ pc' = "loop"
  /\ i' = i + 1
  /\ failed' = failed \cup {0}
  /\ log' = Append(log, Ev("Fatalf", i, kind, 0, 0, << >>))
  /\ UNCHANGED <<gt, Resolved, cleanUpCbs, callParams, k>>

\* t.Fatalf on the group's handle in RunSubTests: the group is marked as
\* failed and its goroutine ends.
Abort(kind) ==
  /\ pc' = "aborted"
  /\ failed' = failed \cup {0}
  /\ log' = Append(log, Ev("Fatalf", i, kind, 0, 0, << >>))
  /\ Resolved' = << >>
  /\ cleanUpCbs' = << >>
  /\ callParams' = << >>
  /\ UNCHANGED <<gt, i, k>>

\* t.Run(name, func): the closure starts on the sub-test's goroutine.
Run(fixtures, cbs, cache) ==
  /\ pc' = "before"
  /\ callParams' = fixtures
  /\ cleanUpCbs' = cbs
  /\ Resolved' = cache
  /\ k' = 0
  /\ UNCHANGED <<gt, i, failed>>

\* src/gtest.go:269-272: the outcome of resolving the fixtures parameter.
Resolution(r) ==
  IF r.status = "ok"
  THEN /\ Run(<<r.val>>, r.cleanUpCbs, r.Resolved)
       /\ log' = r.log
  ELSE /\ pc' = IF r.status = "fatal" THEN "aborted" ELSE "overflow"
       /\ failed' = failed \cup {0}
       /\ log' = r.log
       /\ Resolved' = r.Resolved
       /\ cleanUpCbs' = r.cleanUpCbs
       /\ callParams' = << >>
       /\ UNCHANGED <<gt, i, k>>

\* src/gtest.go:241-281: one iteration of the loop over the methods, up to
\* the call of t.Run.
LoopIteration ==
  /\ pc = "loop"
  /\ i <= NumMethod(gt)
  /\ LET method == GroupType(gt)[i]
         methodParamCount == NumIn(method) - 1
     IN IF ~HasPrefix(method.Name, testMethodPrefix)
        THEN /\ i' = i + 1
             /\ UNCHANGED <<pc, gt, Resolved, cleanUpCbs, callParams, k, failed, log>>
        ELSE IF methodParamCount < 1 THEN Abort("NoParameter")
        ELSE IF In(method, 1).str # "*testing.T" THEN Abort("FirstParameter")
        ELSE IF methodParamCount = 2
          THEN Resolution(resolve(registeredFixtures, i, method.Name,
                                  In(method, 2), newFixtureResolver(log), 1))
        ELSE IF methodParamCount > 2 THEN Abort("TooManyParameters")
        ELSE Run(<< >>, << >>, << >>) /\ UNCHANGED log
  /\ UNCHANGED <<registeredFixtures, regResult>>

\* src/gtest.go:281: the name of the sub-test of method m.
SubTestName(m) == TrimPrefix(m.Name, testMethodPrefix)
\* An event of the sub-test of the current method.
SubEv(ev, who, val) ==
  [Ev(ev, i, who, i, 0, val) EXCEPT !.name = SubTestName(GroupType(gt)[i])]

\* src/gtest.go:282.
BeforeEach ==
  /\ pc = "before"
  /\ log' = Append(log, SubEv("BeforeEach", "-", << >>))
  /\ pc' = "body"
  /\ UNCHANGED <<registeredFixtures, regResult, gt, i, Resolved, cleanUpCbs,
                 callParams, k, failed>>

\* What a case body may do with its handle: return without a failure,
\* report a failure and return (t.Errorf, a failed assertion), or call
\* t.FailNow, which ends the sub-test's goroutine at once.
Outcomes == {"pass", "fail", "failnow"}

\* t.Run returns to the loop.
Return ==
  /\ pc' = "loop"
  /\ i' = i + 1
  /\ Resolved' = << >>
  /\ cleanUpCbs' = << >>
  /\ callParams' = << >>
  /\ k' = 0

\* Mutant: a body that reports a failure ends the whole run.
BodyFailureEndsRun(outcome) ==
  /\ pc = "body"
  /\ log' = Append(log, SubEv("Body", outcome,
                              IF callParams = << >> THEN << >> ELSE callParams[1]))
  /\ failed' = IF outcome = "pass" THEN failed ELSE failed \cup {i, 0}
  /\ pc' = IF outcome = "pass" THEN "cleanup" ELSE "aborted"
  /\ UNCHANGED <<registeredFixtures, regResult, gt, i, Resolved, cleanUpCbs,
                 callParams, k>>

\* src/gtest.go:284-285: tfunc.Call(callParams).
Body(outcome) ==
  /\ pc = "body"
  /\ log' = Append(log, SubEv("Body", outcome,
                              IF callParams = << >> THEN << >> ELSE callParams[1]))
  /\ failed' = IF outcome = "pass" THEN failed ELSE failed \cup {i, 0}
  /\ IF outcome = "failnow"
     THEN Return
     ELSE /\ pc' = "cleanup"
          /\ UNCHANGED <<i, Resolved, cleanUpCbs, callParams, k>>
  /\ UNCHANGED <<registeredFixtures, regResult, gt>>

\* Mutant: the cleanup closures run last appended first, as deferred calls do.
CleanUpLastFirst ==
  /\ pc = "cleanup"
  /\ k < Len(cleanUpCbs)
  /\ LET cb == cleanUpCbs[Len(cleanUpCbs) - k]
     IN log' = Append(log, Ev("Destruct", i, cb.f, cb.t, cb.ctxVal, << >>))
  /\ k' = k + 1
  /\ UNCHANGED <<registeredFixtures, regResult, pc, gt, i, Resolved, cleanUpCbs,
                 callParams, failed>>

\* src/gtest.go:287-289 with 209-215: the next cleanup closure calls
\* Destruct of its fixture with its context.
CleanUp ==
  /\ pc = "cleanup"
  /\ k < Len(cleanUpCbs)
  /\ LET cb == cleanUpCbs[k + 1]
     IN log' = Append(log, Ev("Destruct", i, cb.f, cb.t, cb.ctxVal, << >>))
  /\ k' = k + 1
  /\ UNCHANGED <<registeredFixtures, regResult, pc, gt, i, Resolved, cleanUpCbs,
                 callParams, failed>>

\* src/gtest.go:291-292.
AfterEach ==
  /\ pc = "cleanup"
  /\ k >= Len(cleanUpCbs)
  /\ log' = Append(log, SubEv("AfterEach", "-", << >>))
  /\ Return
  /\ UNCHANGED <<registeredFixtures, regResult, gt, failed>>

\* Mutant: Teardown is skipped once a failure has been reported.
TeardownUnlessFailed ==
  /\ pc = "loop"
  /\ i > NumMethod(gt)
  /\ failed = {}
  /\ log' = Append(log, Ev("Teardown", 0, "-", 0, 0, << >>))
  /\ pc' = "done"
  /\ UNCHANGED <<registeredFixtures, regResult, gt, i, Resolved, cleanUpCbs,
                 callParams, k, failed>>

\* src/gtest.go:295.
Teardown ==
  /\ pc = "loop"
  /\ i > NumMethod(gt)
  /\ log' = Append(log, Ev("Teardown", 0, "-", 0, 0, << >>))
  /\ pc' = "done"
  /\ UNCHANGED <<registeredFixtures, regResult, gt, i, Resolved, cleanUpCbs,
                 callParams, k, failed>>

Init ==
  /\ registeredFixtures = << >>
  /\ regResult = NoCall
  /\ pc = "init"
  /\ gt = "-"
  /\ i = 0
  /\ Resolved = << >>
  /\ cleanUpCbs = << >>
  /\ callParams = << >>
  /\ k = 0
  /\ failed = {}
  /\ log = << >>

Next ==
  \/ \E name \in Names, f \in Instances, scope \in FixtureScope :
       RegisterFixture(name, f, scope)
  \/ \E name \in Names, f \in Instances, scope \in FixtureScope :
       MustRegisterFixture(name, f, scope)
  \/ \E g \in Groups : RunSubTests(g)
  \/ LoopIteration
  \/ BeforeEach
  \/ \E outcome \in Outcomes : Body(outcome)
  \/ CleanUp
  \/ AfterEach
  \/ Teardown

Spec == Init /\ [][Next]_vars

(***************************************************************************)
(* RunSubTests with case bodies that call t.Parallel().  t.Run returns to  *)
(* the loop as soon as the body calls t.Parallel(); the sub-test is parked *)
(* until the test function that called RunSubTests has returned, and then  *)
(* the parked sub-tests go on side by side: the rest of the body, the      *)
(* cleanup closures and AfterEach of one interleave with those of the      *)
(* others.  In this specification pc, Resolved, cleanUpCbs, callParams and *)
(* k hold one value per sub-test (pc[0] is the group's goroutine), since   *)
(* resolver, callParams and cleanUpCbs are declared inside the loop body   *)
(* (src/gtest.go:243, 254, 255) and captured by the closure of their own   *)
(* iteration.  The registry is one that registration has built.            *)
(***************************************************************************)
ParRegistries ==
  {("UserId" :> FixtureEntry(scope, "UserIdFixture"))
     @@ ("MockUser" :> FixtureEntry(ScopeSubTest, "MockUserFixture")) :
       scope \in FixtureScope}
ParGroups == {"GTestTests"}
\* What a body does in the end: it returns, or it calls t.FailNow.
ParOutcomes == {"pass", "failnow"}

\* Mutant: one cleanup list, declared outside the loop, is shared by the
\* closures of all iterations.
SharedCleanUpCbs(all, c, cbs) == [c2 \in DOMAIN all |-> all[c] \o cbs]

\* src/gtest.go:255, 272: the cleanup list of iteration c, filled by resolve.
IterationCleanUpCbs(all, c, cbs) == [all EXCEPT ![c] = cbs]

\* An event of the sub-test of method c.
ParEv(ev, c, who, val) ==
  [Ev(ev, c, who, c, 0, val) EXCEPT !.name = SubTestName(GroupType(gt)[c])]

InitPar ==
  /\ registeredFixtures \in ParRegistries
  /\ regResult = NoCall
  /\ gt \in ParGroups
  /\ pc = [c \in 0..NumMethod(gt) |-> IF c = 0 THEN "init" ELSE "idle"]
  /\ i = 0
  /\ Resolved = [c \in 1..NumMethod(gt) |-> << >>]
  /\ cleanUpCbs = [c \in 1..NumMethod(gt) |-> << >>]
  /\ callParams = [c \in 1..NumMethod(gt) |-> << >>]
  /\ k = [c \in 1..NumMethod(gt) |-> 0]
  /\ failed = {}
  /\ log = << >>

\* src/gtest.go:236-239.
ParRunSubTests ==
  /\ pc[0] = "init"
  /\ i' = 1
  /\ log' = Append(log, Ev("Setup", 0, "-", 0, 0, << >>))
  /\ pc' = [pc EXCEPT ![0] = "loop"]
  /\ UNCHANGED <<registeredFixtures, regResult, gt, Resolved, cleanUpCbs,
                 callParams, k, failed>>

\* t.Fatalf on the group's handle, or the end of resolve's recursion.
ParAbort(status, newLog) ==
  /\ pc' = [pc EXCEPT ![0] = status]
  /\ failed' = failed \cup {0}
  /\ log' = newLog
  /\ UNCHANGED <<i, Resolved, cleanUpCbs, callParams, k>>

\* t.Run: the closure of iteration i starts on the sub-test's goroutine,
\* the group's goroutine waits in t.Run.
ParRun(fixtures, cbs, cache, newLog) ==
  /\ pc' = [pc EXCEPT ![0] = "run", ![i] = "before"]
  /\ callParams' = [callParams EXCEPT ![i] = fixtures]
  /\ cleanUpCbs' = IterationCleanUpCbs(cleanUpCbs, i, cbs)
  /\ Resolved' = [Resolved EXCEPT ![i] = cache]
  /\ log' = newLog
  /\ UNCHANGED <<i, k, failed>>

\* src/gtest.go:241-281.
ParLoopIteration ==
  /\ pc[0] = "loop"
  /\ i <= NumMethod(gt)
  /\ LET method == GroupType(gt)[i]
         methodParamCount == NumIn(method) - 1
         r == resolve(registeredFixtures, i, method.Name, In(method, 2),
                      newFixtureResolver(log), 1)
     IN IF ~HasPrefix(method.Name, testMethodPrefix)
        THEN /\ i' = i + 1
             /\ UNCHANGED <<pc, Resolved, cleanUpCbs, callParams, k, failed, log>>
        ELSE IF methodParamCount < 1
          THEN ParAbort("aborted",
                        Append(log, Ev("Fatalf", i, "NoParameter", 0, 0, << >>)))
        ELSE IF In(method, 1).str # "*testing.T"
          THEN ParAbort("aborted",
                        Append(log, Ev("Fatalf", i, "FirstParameter", 0, 0, << >>)))
        ELSE IF methodParamCount = 2
          THEN IF r.status = "ok"
               THEN ParRun(<<r.val>>, r.cleanUpCbs, r.Resolved, r.log)
               ELSE ParAbort(IF r.status = "fatal" THEN "aborted" ELSE "overflow",
                             r.log)
        ELSE IF methodParamCount > 2
          THEN ParAbort("aborted",
                        Append(log, Ev("Fatalf", i, "TooManyParameters", 0, 0, << >>)))
        ELSE ParRun(<< >>, << >>, << >>, log)
  /\ UNCHANGED <<registeredFixtures, regResult, gt>>

\* src/gtest.go:282.
ParBeforeEach ==
  /\ pc[0] = "run"
  /\ pc[i] = "before"
  /\ log' = Append(log, ParEv("BeforeEach", i, "-", << >>))
  /\ pc' = [pc EXCEPT ![i] = "body"]
  /\ UNCHANGED <<registeredFixtures, regResult, gt, i, Resolved, cleanUpCbs,
                 callParams, k, failed>>

\* The body of case i calls t.Parallel(): its sub-test is parked and
\* t.Run returns to the loop.
ParParallel ==
  /\ pc[0] = "run"
  /\ pc[i] = "body"
  /\ log' = Append(log, ParEv("Parallel", i, "-", << >>))
  /\ pc' = [pc EXCEPT ![0] = "loop", ![i] = "parked"]
  /\ i' = i + 1
  /\ UNCHANGED <<registeredFixtures, regResult, gt, Resolved, cleanUpCbs,
                 callParams, k, failed>>

\* The sub-test of case c has returned; t.Run returns to the loop when it
\* was still waiting for it.
ParReturn(c) ==
  IF pc[0] = "run" /\ c = i
  THEN /\ pc' = [pc EXCEPT ![0] = "loop", ![c] = "returned"]
       /\ i' = i + 1
  ELSE /\ pc' = [pc EXCEPT ![c] = "returned"]
       /\ i' = i

\* src/gtest.go:284-285: the body of case c ends, either without having
\* called t.Parallel(), or after the function that called RunSubTests has
\* returned and the parked sub-tests were let go.
ParBody(c, outcome) ==
  /\ \/ pc[0] = "run" /\ c = i /\ pc[c] = "body"
     \/ pc[0] = "done" /\ pc[c] = "parked"
  /\ log' = Append(log, ParEv("Body", c, outcome,
                              IF callParams[c] = << >> THEN << >>
                              ELSE callParams[c][1]))
  /\ failed' = IF outcome = "pass" THEN failed ELSE failed \cup {c, 0}
  /\ IF outcome = "failnow"
     THEN ParReturn(c)
     ELSE /\ pc' = [pc EXCEPT ![c] = "cleanup"]
          /\ i' = i
  /\ UNCHANGED <<registeredFixtures, regResult, gt, Resolved, cleanUpCbs,
                 callParams, k>>

\* src/gtest.go:287-289 with 209-215, run by the sub-test of case c.
ParCleanUp(c) ==
  /\ pc[c] = "cleanup"
  /\ k[c] < Len(cleanUpCbs[c])
  /\ LET cb == cleanUpCbs[c][k[c] + 1]
     IN log' = Append(log, Ev("Destruct", c, cb.f, cb.t, cb.ctxVal, << >>))
  /\ k' = [k EXCEPT ![c] = @ + 1]
  /\ UNCHANGED <<registeredFixtures, regResult, pc, gt, i, Resolved, cleanUpCbs,
                 callParams, failed>>

\* src/gtest.go:291-292.
ParAfterEach(c) ==
  /\ pc[c] = "cleanup"
  /\ k[c] >= Len(cleanUpCbs[c])
  /\ log' = Append(log, ParEv("AfterEach", c, "-", << >>))
  /\ ParReturn(c)
  /\ UNCHANGED <<registeredFixtures, regResult, gt, Resolved, cleanUpCbs,
                 callParams, k, failed>>

\* src/gtest.go:295: the loop is over; parked sub-tests are still parked.
ParTeardown ==
  /\ pc[0] = "loop"
  /\ i > NumMethod(gt)
  /\ log' = Append(log, Ev("Teardown", 0, "-", 0, 0, << >>))
  /\ pc' = [pc EXCEPT ![0] = "done"]
  /\ UNCHANGED <<registeredFixtures, regResult, gt, i, Resolved, cleanUpCbs,
                 callParams, k, failed>>

NextPar ==
  \/ ParRunSubTests
  \/ ParLoopIteration
  \/ ParBeforeEach
  \/ ParParallel
  \/ \E c \in 1..NumMethod(gt), outcome \in ParOutcomes : ParBody(c, outcome)
  \/ \E c \in 1..NumMethod(gt) : ParCleanUp(c)
  \/ \E c \in 1..NumMethod(gt) : ParAfterEach(c)
  \/ ParTeardown

SpecPar == InitPar /\ [][NextPar]_vars

(***************************************************************************)
(* Vocabulary of the properties.                                           *)
(***************************************************************************)
\* The events of kind ev logged for test method c, in order.
CaseEvents(c, ev) == SelectSeq(log, LAMBDA e : e.c = c /\ e.ev = ev)
Ids(events) == [p \in 1..Len(events) |-> events[p].id]
\* The sub-test of method i holds the outcome of a successful resolution.
Resolved2 == pc \in {"before", "body", "cleanup"} /\ callParams # << >>
\* The dependency shape of the current test method and the value built.
CurFields == In(GroupType(gt)[i], 2).fields
CurVals == callParams[1]
Entry(field) == registeredFixtures[field.Tag]
\* Where the cleanup closures holding context id stand in the cleanup list.
CbPos(id) == {p \in 1..Len(cleanUpCbs) : cleanUpCbs[p].ctxVal = id}
\* The dependency shapes resolved for the current case with the values
\* they were given: the case's own and that of every fixture constructed.
ShapesOfCase ==
  {<<CurFields, CurVals>>} \cup
  {<<In(TypeOf(e.who).Construct, 2).fields, e.val>> :
     e \in Range(CaseEvents(i, "Construct"))}
\* Every value constructed for the current case went into a field.
NothingConstructedInVain ==
  \A e \in Range(CaseEvents(i, "Construct")) :
    \E sh \in ShapesOfCase : \E j \in 1..Len(sh[2]) : sh[2][j] = e.id

\* C1: when resolution of a test method's dependency shape has succeeded,
\* every field that references a ScopeCall fixture holds the value of a
\* Construct invocation of that fixture's instance made for this shape and
\* held by no other field, that invocation has exactly one cleanup closure,
\* the invocations made for the shape under ScopeCall are exactly those
\* held by such fields (N fields, N invocations), and both the invocations
\* and their cleanup closures are in field declaration order.
C1_PerCallFreshPerReference ==
  Resolved2 =>
    LET cons == CaseEvents(i, "Construct")
        CallIdx == {j \in 1..Len(CurFields) : Entry(CurFields[j]).Scope = ScopeCall}
        direct == {e \in Range(cons) :
                     e.caller = GroupType(gt)[i].Name /\ e.scope = ScopeCall}
    IN /\ \A j \in CallIdx :
            /\ \E e \in direct :
                 e.id = CurVals[j] /\ e.who = Entry(CurFields[j]).Instance
            /\ \A j2 \in 1..Len(CurFields) : j2 # j => CurVals[j2] # CurVals[j]
            /\ Cardinality(CbPos(CurVals[j])) = 1
            /\ \A p \in CbPos(CurVals[j]) :
                 cleanUpCbs[p].f = Entry(CurFields[j]).Instance
       /\ {e.id : e \in direct} = {CurVals[j] : j \in CallIdx}
       /\ Cardinality(direct) = Cardinality(CallIdx)
       /\ \A j1, j2 \in CallIdx :
            j1 < j2 =>
              /\ CurVals[j1] < CurVals[j2]
              /\ \A p1 \in CbPos(CurVals[j1]), p2 \in CbPos(CurVals[j2]) : p1 < p2

\* C1 witness: a resolved shape with three references to one ScopeCall name.
C1_Witness ==
  /\ Resolved2
  /\ \E n \in DOMAIN registeredFixtures :
       /\ registeredFixtures[n].Scope = ScopeCall
       /\ Cardinality({j \in 1..Len(CurFields) : CurFields[j].Tag = n}) = 3

\* C2: when resolution for a test case has succeeded, for every instance
\* referenced under ScopeSubTest in any shape resolved for the case (the
\* case's own or a fixture's), exactly one Construct invocation of the
\* instance was made under ScopeSubTest, every field referencing it under
\* ScopeSubTest holds that invocation's value, it has exactly one cleanup
\* closure, and no construction was made whose value no field received (a
\* cache hit constructs neither the fixture nor its dependencies).
C2_PerSubTestOnce ==
  Resolved2 =>
    /\ \A sh \in ShapesOfCase : \A j \in 1..Len(sh[1]) :
         Entry(sh[1][j]).Scope = ScopeSubTest =>
           LET f == Entry(sh[1][j]).Instance
               made == {e \in Range(CaseEvents(i, "Construct")) :
                          e.who = f /\ e.scope = ScopeSubTest}
           IN /\ Cardinality(made) = 1
              /\ \A e \in made :
                   /\ sh[2][j] = e.id
                   /\ Cardinality(CbPos(e.id)) = 1
    /\ NothingConstructedInVain
    /\ Len(cleanUpCbs) = Len(CaseEvents(i, "Construct"))

\* C2 witness: a ScopeSubTest fixture referenced twice by the case's shape
\* and once more by the shape of another fixture constructed for the case.
C2_Witness ==
  /\ Resolved2
  /\ \E n \in DOMAIN registeredFixtures :
       /\ registeredFixtures[n].Scope = ScopeSubTest
       /\ Cardinality({j \in 1..Len(CurFields) : CurFields[j].Tag = n}) = 2
       /\ \E e \in Range(CaseEvents(i, "Construct")) :
            /\ e.who # registeredFixtures[n].Instance
            /\ \E j \in 1..Len(e.val) :
                 In(TypeOf(e.who).Construct, 2).fields[j].Tag = n

\* Where in the log the events of kind ev of test method c stand.
Pos(c, ev) == {p \in 1..Len(log) : log[p].c = c /\ log[p].ev = ev}
\* The sub-test of method c has returned to the loop.
Finished(c) == pc \notin {"init", "panic"} /\ c < i
TestMethods == IF gt \in Groups THEN 1..NumMethod(gt) ELSE {}
\* The Destruct calls made for test method c are those of the fixtures
\* constructed for it, in construction order, each with its own context.
DestructsSoFar(c) ==
  [p \in 1..Len(CaseEvents(c, "Destruct")) |->
     <<CaseEvents(c, "Destruct")[p].who, CaseEvents(c, "Destruct")[p].id>>]
ConstructsOf(c) ==
  [p \in 1..Len(CaseEvents(c, "Construct")) |->
     <<CaseEvents(c, "Construct")[p].who, CaseEvents(c, "Construct")[p].id>>]
IsPrefix(s, t) == Len(s) <= Len(t) /\ SubSeq(t, 1, Len(s)) = s

\* C3: every Destruct call for a test case comes after the case's body and
\* before its AfterEach; the calls follow the order in which the fixtures
\* were constructed; when AfterEach is invoked every fixture constructed
\* for the case has been destructed; and a case whose body returns, with or
\* without a failed assertion, gets its cleanup and its AfterEach.
C3_CleanupBetweenBodyAndAfterEach ==
  \A c \in TestMethods :
    /\ \A p \in Pos(c, "Destruct") :
         /\ \E b \in Pos(c, "Body") : b < p
         /\ \A a \in Pos(c, "AfterEach") : p < a
         /\ \A q \in Pos(c, "Construct") : q < p
    /\ IsPrefix(DestructsSoFar(c), ConstructsOf(c))
    /\ Pos(c, "AfterEach") # {} => DestructsSoFar(c) = ConstructsOf(c)
    /\ \A b \in Pos(c, "Body") :
         (Finished(c) /\ log[b].who \in {"pass", "fail"}) =>
           /\ Cardinality(Pos(c, "AfterEach")) = 1
           /\ \A a \in Pos(c, "AfterEach") : b < a

\* C3 witness: a finished case whose body failed an assertion, with two or
\* more fixtures destructed and AfterEach invoked.
C3_Witness ==
  \E c \in TestMethods :
    /\ Finished(c)
    /\ \E b \in Pos(c, "Body") : log[b].who = "fail"
    /\ Len(DestructsSoFar(c)) >= 2
    /\ Pos(c, "AfterEach") # {}

\* C4 (the claim as stated): whatever the body of a test case did, t.FailNow
\* included, once its sub-test has returned all fixtures constructed for it
\* have been destructed and AfterEach has been invoked.
C4_CleanupWhateverTheOutcome ==
  \A c \in TestMethods :
    (Finished(c) /\ Pos(c, "Body") # {}) =>
      /\ DestructsSoFar(c) = ConstructsOf(c)
      /\ Pos(c, "AfterEach") # {}

(***************************************************************************)
(* A group whose signatures and fixture references are all valid under     *)
(* registry reg: every test method takes the handle and at most a struct,  *)
(* every field of a shape it reaches is exported and names a registered    *)
(* fixture, and no fixture depends on itself.                              *)
(***************************************************************************)
RECURSIVE ValidShape(_, _, _)
ValidShape(reg, type, visited) ==
  /\ type.kind = "struct"
  /\ \A j \in 1..Len(type.fields) :
       LET field == type.fields[j] IN
         /\ field.Tag \in DOMAIN reg
         /\ field.Exported
         /\ field.Tag \notin visited
         /\ ValidShape(reg, In(TypeOf(reg[field.Tag].Instance).Construct, 2),
                       visited \cup {field.Tag})
ValidGroup(reg, g) ==
  /\ g \in Groups
  /\ \A m \in Range(GroupType(g)) :
       HasPrefix(m.Name, testMethodPrefix) =>
         /\ NumIn(m) \in {2, 3}
         /\ In(m, 1).str = "*testing.T"
         /\ NumIn(m) = 3 => ValidShape(reg, In(m, 2), {})

\* C5: in a run on a valid group Setup is the first event and happens
\* once, the run does not stop before Teardown (also after failed cases),
\* and Teardown happens once, as the last event.
C5_SetupAndTeardownOnce ==
  (pc \notin {"init", "panic"} /\ ValidGroup(registeredFixtures, gt)) =>
    /\ log[1].ev = "Setup"
    /\ Len(SelectEv(log, "Setup")) = 1
    /\ pc \notin {"aborted", "overflow"}
    /\ (pc = "loop" /\ i > NumMethod(gt)) => ENABLED Teardown
    /\ Len(SelectEv(log, "Teardown")) = IF pc = "done" THEN 1 ELSE 0
    /\ pc = "done" => log[Len(log)].ev = "Teardown"

\* C5 witness: a finished run of a valid group in which fixtures were
\* constructed, one case failed an assertion and another called t.FailNow.
C5_Witness ==
  /\ pc = "done"
  /\ ValidGroup(registeredFixtures, gt)
  /\ NumConstructs(log) >= 2
  /\ \E e \in Range(SelectEv(log, "Body")) : e.who = "fail"
  /\ \E e \in Range(SelectEv(log, "Body")) : e.who = "failnow"

\* C6 (the claim as stated): after a reference to an unregistered fixture
\* has been reported, the run still goes on to the other test cases and
\* ends with Teardown.
C6_UnregisteredAbortsOnlyTheCase ==
  (\E e \in Range(SelectEv(log, "Fatalf")) : e.who = "UnregisteredFixture") =>
    \/ pc = "done" /\ log[Len(log)].ev = "Teardown"
    \/ pc \in {"loop", "before", "body", "cleanup"}

\* A step that is a call of RegisterFixture or MustRegisterFixture; the
\* call and its result are regResult'.
RegistrationStep == pc = "init" /\ pc' \in {"init", "panic"}

\* C7: a registration call whose name is already in the registry returns
\* an error, whatever instance and scope it is given, and leaves the
\* registry, hence the entry of the name, as it was.
C7_DuplicateNameRejected ==
  [][(RegistrationStep /\ regResult'.name \in DOMAIN registeredFixtures) =>
       /\ regResult'.err # "nil"
       /\ registeredFixtures' = registeredFixtures
       /\ GetFixture(registeredFixtures', regResult'.name)
            = <<registeredFixtures[regResult'.name], TRUE>>]_vars

\* C7 witness: a refused registration of a well-formed instance under a
\* name held by another instance with another scope.
C7_Witness ==
  /\ regResult.err = "AlreadyRegistered"
  /\ regResult.f \in WellFormed
  /\ registeredFixtures[regResult.name].Instance # regResult.f
  /\ registeredFixtures[regResult.name].Scope # regResult.scope

\* The instances the contract rules out: no Construct, a Construct that
\* does not take two parameters or return two results, or whose first
\* parameter is not *testing.T or second is not a struct; no Destruct, a
\* Destruct that does not take two parameters, or whose first parameter is
\* not *testing.T or second is not interface{}.
ContractBroken(fType) ==
  \/ ~HasMethod(fType, "Construct")
  \/ NumIn(fType.Construct) # 3
  \/ NumOut(fType.Construct) # 2
  \/ In(fType.Construct, 1) # TestingT
  \/ In(fType.Construct, 2).kind # "struct"
  \/ ~HasMethod(fType, "Destruct")
  \/ NumIn(fType.Destruct) # 3
  \/ In(fType.Destruct, 1) # TestingT
  \/ In(fType.Destruct, 2) # EmptyInterface

C9_DestructWithResultRejected ==
  (/\ regResult.f \in Instances
   /\ HasMethod(TypeOf(regResult.f), "Destruct")
   /\ NumOut(TypeOf(regResult.f).Destruct) > 0) => regResult.err # "nil"

\* C10 (the claim as stated): an instance with a well-shaped Construct
\* whose Destruct takes *testing.T and the type of Construct's second
\* result is accepted under a free name, and MustRegisterFixture does not
\* panic on it.
C10_DocumentedDestructAccepted ==
  (/\ regResult.f \in Instances
   /\ regResult.err # "AlreadyRegistered"
   /\ validateFixtureConstructMethod(TypeOf(regResult.f)) = "nil"
   /\ HasMethod(TypeOf(regResult.f), "Destruct")
   /\ TypeOf(regResult.f).Destruct.In
        = <<Recv, TestingT, TypeOf(regResult.f).Construct.Out[2]>>)
  => regResult.err = "nil" /\ pc # "panic"

\* Where in the log the events of kind ev stand.
AllPos(ev) == {p \in 1..Len(log) : log[p].ev = ev}
\* The Destruct calls made with the context of the Construct call at q.
DestructsOf(q) ==
  {p \in AllPos("Destruct") : log[p].id = log[q].id /\ log[p].who = log[q].who}
\* Constructions minus destructions of instance f: its live allocations.
Live(f) ==
  Cardinality({q \in AllPos("Construct") : log[q].who = f})
    - Cardinality({p \in AllPos("Destruct") : log[p].who = f})
NoFailNow == \A b \in AllPos("Body") : log[b].who # "failnow"

\* C11: no Destruct call is made without an earlier Construct call of the
\* same instance that returned its context, no context is destructed
\* twice, and once RunSubTests has returned from a run in which every
\* resolution succeeded and every body returned (with or without a failed
\* assertion), every Construct call has been followed by exactly one
\* Destruct call of the same instance: no instance has a live allocation.
C11_ConstructDestructBalanced ==
  /\ \A p \in AllPos("Destruct") :
       \E q \in AllPos("Construct") : q < p /\ p \in DestructsOf(q)
  /\ \A p1, p2 \in AllPos("Destruct") : log[p1].id = log[p2].id => p1 = p2
  /\ (pc = "done" /\ NoFailNow) =>
       /\ \A q \in AllPos("Construct") :
            /\ Cardinality(DestructsOf(q)) = 1
            /\ \A p \in DestructsOf(q) : q < p
       /\ \A f \in Instances : Live(f) = 0

\* C11 witness: a finished run with a failed assertion and no t.FailNow in
\* which some instance was constructed three times or more.
C11_Witness ==
  /\ pc = "done"
  /\ NoFailNow
  /\ \E b \in AllPos("Body") : log[b].who = "fail"
  /\ \E f \in Instances :
       Cardinality({q \in AllPos("Construct") : log[q].who = f}) >= 3

\* Test method c is a test case whose body reported a failure.
FailedCase(c) == \E b \in Pos(c, "Body") : log[b].who \in {"fail", "failnow"}
\* Test method c is a test case: its name starts with the prefix.
IsCase(c) == HasPrefix(GroupType(gt)[c].Name, testMethodPrefix)

\* C12: in a run on a valid group, after a case whose body failed an
\* assertion or called t.FailNow the run is not stopped; every later case,
\* once its sub-test has returned, had its fixtures resolved (the body was
\* given one value per field, each constructed for this case before
\* BeforeEach), BeforeEach and the body invoked once and, its own body
\* having returned, all its fixtures destructed and AfterEach invoked
\* once; and the run ends with Teardown.
C12_FailureDoesNotStopLaterCases ==
  \A c \in TestMethods :
    (FailedCase(c) /\ ValidGroup(registeredFixtures, gt)) =>
      /\ pc \notin {"aborted", "overflow"}
      /\ (pc = "loop" /\ i > NumMethod(gt)) => ENABLED Teardown
      /\ pc = "done" => log[Len(log)].ev = "Teardown"
      /\ \A c2 \in TestMethods :
           (c < c2 /\ IsCase(c2) /\ Finished(c2)) =>
             /\ Cardinality(Pos(c2, "BeforeEach")) = 1
             /\ Cardinality(Pos(c2, "Body")) = 1
             /\ \A be \in Pos(c2, "BeforeEach"), b \in Pos(c2, "Body") :
                  /\ be < b
                  /\ NumIn(GroupType(gt)[c2]) = 3 =>
                       /\ Len(log[b].val) = Len(In(GroupType(gt)[c2], 2).fields)
                       /\ \A j \in 1..Len(log[b].val) :
                            \E q \in Pos(c2, "Construct") :
                              q < be /\ log[q].id = log[b].val[j]
                  /\ log[b].who # "failnow" =>
                       /\ DestructsSoFar(c2) = ConstructsOf(c2)
                       /\ Cardinality(Pos(c2, "AfterEach")) = 1
                       /\ \A a \in Pos(c2, "AfterEach") : b < a

\* C12 witness: a finished run of a valid group in which a case that
\* called t.FailNow is followed by a case with two or more fixtures that
\* failed an assertion and got its AfterEach, itself followed by a case.
C12_Witness ==
  /\ pc = "done"
  /\ ValidGroup(registeredFixtures, gt)
  /\ \E c, c2, c3 \in TestMethods :
       /\ c < c2 /\ c2 < c3
       /\ \E b \in Pos(c, "Body") : log[b].who = "failnow"
       /\ \E b \in Pos(c2, "Body") : log[b].who = "fail"
       /\ Len(ConstructsOf(c2)) >= 2
       /\ Pos(c2, "AfterEach") # {}
       /\ Pos(c3, "Body") # {}

\* The name of test method c starts with "SubTest".
StartsWithSubTest(c) == SubSeq(GroupType(gt)[c].Name, 1, 1) = <<"SubTest">>
\* The name of test method c without its first word.
Stripped(c) == SubSeq(GroupType(gt)[c].Name, 2, Len(GroupType(gt)[c].Name))
\* Where in the log the events made for test method c stand.
PosOfCase(c) == {p \in 1..Len(log) : log[p].c = c}

\* C13: nothing is ever done for a method whose name does not start with
\* "SubTest" (no resolution, no BeforeEach, no body, no AfterEach, no
\* failure report), hooks included; a method whose name starts with it has
\* BeforeEach and its body invoked at most once, exactly once when its
\* sub-test has returned, in a sub-test named by the method's name without
\* the prefix; so a run that reaches Teardown has executed exactly the
\* methods with the prefix, once each.
C13_ExactlyThePrefixedMethodsRun ==
  \A c \in TestMethods :
    /\ ~StartsWithSubTest(c) => PosOfCase(c) = {}
    /\ StartsWithSubTest(c) =>
         /\ Cardinality(Pos(c, "BeforeEach")) <= 1
         /\ Cardinality(Pos(c, "Body")) <= 1
         /\ Cardinality(Pos(c, "AfterEach")) <= 1
         /\ Finished(c) => Cardinality(Pos(c, "Body")) = 1
         /\ \A p \in Pos(c, "BeforeEach") \cup Pos(c, "Body")
                       \cup Pos(c, "AfterEach") :
              log[p].name = Stripped(c)
    /\ pc = "done" =>
         Cardinality(AllPos("Body"))
           = Cardinality({c2 \in TestMethods : StartsWithSubTest(c2)})

\* C13 witness: a finished run on the group whose methods hold "SubTest"
\* elsewhere in their name or differ from it by case: two bodies were
\* executed, one of them under the empty name of the method SubTest.
C13_Witness ==
  /\ pc = "done"
  /\ gt = "MixedTests"
  /\ Cardinality(AllPos("Body")) = 2
  /\ \E p \in AllPos("Body") : log[p].name = << >>
  /\ \E p \in AllPos("Body") : log[p].name = <<"sFoo">> /\ Len(log[p].val) = 2

\* Test method c is a test case whose signature is refused: no parameter, a
\* first parameter other than *testing.T, or more than two parameters.
BadSignature(c) ==
  /\ StartsWithSubTest(c)
  /\ \/ NumIn(GroupType(gt)[c]) < 2
     \/ In(GroupType(gt)[c], 1) # TestingT
     \/ NumIn(GroupType(gt)[c]) > 3
\* The loop has dealt with test method c.
Reached(c) == pc \notin {"init", "panic"} /\ (c < i \/ (c = i /\ pc # "loop"))

\* C14: once the loop has dealt with a test case whose signature is
\* refused, the run has stopped at it with a fatal failure reported on the
\* group's handle as the last event: nothing was resolved or constructed
\* for it, neither BeforeEach nor its body was invoked, nothing at all was
\* done for a later method, and Teardown was not invoked.
C14_BadSignatureStopsTheRun ==
  \A c \in TestMethods :
    (BadSignature(c) /\ Reached(c)) =>
      /\ pc = "aborted"
      /\ i = c
      /\ 0 \in failed
      /\ log[Len(log)].ev = "Fatalf" /\ log[Len(log)].c = c /\ log[Len(log)].t = 0
      /\ log[Len(log)].who
            \in {"NoParameter", "FirstParameter", "TooManyParameters"}
      /\ PosOfCase(c) = {Len(log)}
      /\ \A c2 \in TestMethods : c < c2 => PosOfCase(c2) = {}
      /\ AllPos("Teardown") = {}

\* C14 witness: the run stopped at a case taking three parameters, after a
\* case that ran and before a case whose fixture is registered.
C14_Witness ==
  /\ pc = "aborted"
  /\ gt = "TooManyParametersTests"
  /\ "UserId" \in DOMAIN registeredFixtures
  /\ log[Len(log)].who = "TooManyParameters"
  /\ \E c \in TestMethods : c < i /\ Pos(c, "AfterEach") # {}
  /\ \E c \in TestMethods : i < c /\ StartsWithSubTest(c)

\* C15: in every step, every entry of the registry stays what it is and
\* GetFixture keeps returning it; a name gets an entry only by a
\* registration call for that name that returned no error, the entry being
\* the scope and instance of the call; a name without an entry is reported
\* absent; and a step that is not a registration call (RunSubTests and all
\* it does, resolution included) leaves the registry as it is.
C15_RegistryEntriesImmutable ==
  [][/\ \A n \in DOMAIN registeredFixtures :
          /\ n \in DOMAIN registeredFixtures'
          /\ registeredFixtures'[n] = registeredFixtures[n]
          /\ GetFixture(registeredFixtures', n) = <<registeredFixtures[n], TRUE>>
     /\ \A n \in DOMAIN registeredFixtures' \ DOMAIN registeredFixtures :
          /\ RegistrationStep
          /\ regResult'.err = "nil"
          /\ regResult'.name = n
          /\ GetFixture(registeredFixtures', n)
               = <<[Scope |-> regResult'.scope, Instance |-> regResult'.f], TRUE>>
     /\ (RegistrationStep /\ regResult'.err = "nil") =>
          DOMAIN registeredFixtures'
            = DOMAIN registeredFixtures \cup {regResult'.name}
     /\ \A n \in Names \ DOMAIN registeredFixtures' :
          ~GetFixture(registeredFixtures', n)[2]
     /\ ~RegistrationStep => registeredFixtures' = registeredFixtures]_vars

\* C15 witness: a finished run with fixtures constructed, after two names
\* were registered with different instances and scopes.
C15_Witness ==
  /\ pc = "done"
  /\ NumConstructs(log) >= 2
  /\ DOMAIN registeredFixtures = Names
  /\ registeredFixtures["UserId"].Instance # registeredFixtures["MockUser"].Instance
  /\ registeredFixtures["UserId"].Scope # registeredFixtures["MockUser"].Scope

\* The Construct call of the current case that returned value id.
ConstructOf(id) ==
  CHOOSE e \in Range(CaseEvents(i, "Construct")) : e.id = id
\* The dependency shape of instance f.
ShapeOf(f) == In(TypeOf(f).Construct, 2).fields
\* Value id and the values its construction was given, all the way down.
RECURSIVE Under(_)
Under(id) == {id} \cup UNION {Under(d) : d \in Range(ConstructOf(id).val)}

\* Value id was taken from the cache when field j2 of shape sh was
\* resolved: a ScopeSubTest value constructed no later than the value of
\* the earlier field j and, in the case's own shape, for field j or a
\* field before it.
Cached(sh, j, id) ==
  /\ ConstructOf(id).scope = ScopeSubTest
  /\ id <= sh[2][j]
  /\ sh = <<CurFields, CurVals>> => \E j1 \in 1..j : id \in Under(sh[2][j1])
\* Value id and all that is under it was constructed after the value of
\* field j of shape sh, or taken from the cache.
RECURSIVE After(_, _, _)
After(sh, j, id) ==
  \/ Cached(sh, j, id)
  \/ /\ sh[2][j] < id
     /\ \A d \in Range(ConstructOf(id).val) : After(sh, j, d)

\* C16: when resolution for a case has succeeded, every Construct call made
\* for it was given one value per field of the fixture's dependency shape,
\* each constructed earlier; in every shape resolved for the case every
\* field holds the value of a Construct call of the field's instance made
\* for the case; and for fields j before j2 of a shape, what field j2 holds
\* and everything under it was either constructed after the value of field
\* j (hence after all of j's dependencies) or is a ScopeSubTest value taken
\* from the cache.
C16_DepthFirstInFieldOrder ==
  Resolved2 =>
    /\ \A e \in Range(CaseEvents(i, "Construct")) :
         /\ Len(e.val) = Len(ShapeOf(e.who))
         /\ \A d \in Range(e.val) : d >= 1 /\ d < e.id
    /\ \A sh \in ShapesOfCase : \A j \in 1..Len(sh[1]) :
         /\ \E e \in Range(CaseEvents(i, "Construct")) :
              /\ e.id = sh[2][j]
              /\ e.who = Entry(sh[1][j]).Instance
         /\ \A j2 \in 1..Len(sh[1]) : j < j2 => After(sh, j, sh[2][j2])

\* C16 witness: a resolved shape of two ScopeCall fields, the second of a
\* fixture that has a dependency of its own, constructed in between.
C16_Witness ==
  /\ Resolved2
  /\ Len(CurFields) = 2
  /\ \A j \in 1..2 : Entry(CurFields[j]).Scope = ScopeCall
  /\ \E d \in Range(ConstructOf(CurVals[2]).val) :
       /\ CurVals[1] < d
       /\ d < CurVals[2]

\* C17: among the Destruct calls of a test case, a fixture whose Construct
\* call returned earlier is destructed earlier; hence a fixture that was
\* given to the Construct call of another as a dependency is destructed
\* before that other one.
C17_FirstConstructedFirstDestroyed ==
  \A c \in TestMethods :
    /\ \A q1, q2 \in Pos(c, "Construct") :
         \A p1, p2 \in Pos(c, "Destruct") :
           (q1 < q2 /\ p1 \in DestructsOf(q1) /\ p2 \in DestructsOf(q2)) => p1 < p2
    /\ \A qA, qB \in Pos(c, "Construct") :
         (\E j \in 1..Len(log[qA].val) : log[qA].val[j] = log[qB].id) =>
           \A pA \in DestructsOf(qA) :
             \E pB \in DestructsOf(qB) : pB < pA

\* C17 witness: a case for which a fixture and then the fixture depending
\* on it were destructed.
C17_Witness ==
  \E c \in TestMethods : \E qA, qB \in Pos(c, "Construct") :
    /\ log[qA].who # log[qB].who
    /\ \E j \in 1..Len(log[qA].val) : log[qA].val[j] = log[qB].id
    /\ \E pA \in DestructsOf(qA), pB \in DestructsOf(qB) : pB < pA

\* C18: the cleanup closures of a case are, one for one and in order, the
\* Construct calls made for it, each holding the instance, the handle and
\* the context of its call; every Destruct call is made on the instance of
\* the one Construct call that returned its context, with the handle that
\* call was given and for the same case; and two Destruct calls are never
\* made with the same context.
C18_DestructGetsItsOwnContext ==
  /\ Resolved2 =>
       /\ Len(cleanUpCbs) = Len(CaseEvents(i, "Construct"))
       /\ \A p \in 1..Len(cleanUpCbs) :
            /\ cleanUpCbs[p].ctxVal = CaseEvents(i, "Construct")[p].id
            /\ cleanUpCbs[p].f = CaseEvents(i, "Construct")[p].who
            /\ cleanUpCbs[p].t = CaseEvents(i, "Construct")[p].t
  /\ \A p \in AllPos("Destruct") :
       /\ Cardinality({q \in AllPos("Construct") : log[q].id = log[p].id}) = 1
       /\ \A q \in AllPos("Construct") :
            log[q].id = log[p].id =>
              /\ log[q].who = log[p].who
              /\ log[q].t = log[p].t
              /\ log[q].c = log[p].c
       /\ \A p2 \in AllPos("Destruct") : log[p2].id = log[p].id => p2 = p

\* C18 witness: one instance constructed three times for a case and
\* destructed three times, with three contexts.
C18_Witness ==
  \E c \in TestMethods : \E f \in Instances :
    /\ Cardinality({q \in Pos(c, "Construct") : log[q].who = f}) = 3
    /\ Cardinality({log[p].id : p \in {p2 \in Pos(c, "Destruct") : log[p2].who = f}}) = 3

\* Fields j1 and j2 of the case's shape name two names, both registered
\* under ScopeSubTest with one and the same instance.
Aliases(j1, j2) ==
  /\ CurFields[j1].Tag # CurFields[j2].Tag
  /\ Entry(CurFields[j1]).Instance = Entry(CurFields[j2]).Instance
  /\ Entry(CurFields[j1]).Scope = ScopeSubTest
  /\ Entry(CurFields[j2]).Scope = ScopeSubTest
\* The Construct calls of instance f made for the current case.
ConstructsFor(f) == {e \in Range(CaseEvents(i, "Construct")) : e.who = f}

\* C19: when the shape of a case names the same instance under two names
\* that are both registered with ScopeSubTest, both fields hold the same
\* value, the instance was constructed once for the case, and one cleanup
\* closure was appended for it.
C19_CacheKeyedByInstance ==
  Resolved2 =>
    \A j1, j2 \in 1..Len(CurFields) :
      Aliases(j1, j2) =>
        /\ CurVals[j1] = CurVals[j2]
        /\ Cardinality(ConstructsFor(Entry(CurFields[j1]).Instance)) = 1
        /\ \A e \in ConstructsFor(Entry(CurFields[j1]).Instance) :
             e.id = CurVals[j1]
        /\ Cardinality({p \in 1..Len(cleanUpCbs) :
                          cleanUpCbs[p].f = Entry(CurFields[j1]).Instance}) = 1
        /\ Entry(CurFields[j1]).Instance \in DOMAIN Resolved
        /\ Resolved[Entry(CurFields[j1]).Instance] = CurVals[j1]

\* C19 witness: a resolved shape with two fields of different names, both
\* ScopeSubTest entries of one instance.
C19_Witness ==
  /\ Resolved2
  /\ \E j1, j2 \in 1..Len(CurFields) : Aliases(j1, j2)

\* A field of a shape resolved for the current case, as <<shape, index>>.
FieldsOfCase ==
  UNION {{<<sh, j>> : j \in 1..Len(sh[1])} : sh \in ShapesOfCase}

\* C20: when resolution for a case has succeeded, a field naming a
\* ScopeCall entry holds the value of a Construct call made for a
\* ScopeCall reference, which no other field of any shape of the case
\* holds, and every entry of the cache is the value of a Construct call of
\* its key made for a ScopeSubTest reference; so also when the instance is
\* registered under another name with ScopeSubTest.
C20_CacheOnlyForSubTestScope ==
  Resolved2 =>
    /\ \A x \in FieldsOfCase :
         Entry(x[1][1][x[2]]).Scope = ScopeCall =>
           /\ ConstructOf(x[1][2][x[2]]).scope = ScopeCall
           /\ \A y \in FieldsOfCase :
                y[1][2][y[2]] = x[1][2][x[2]] => y = x
    /\ \A f \in DOMAIN Resolved :
         /\ ConstructOf(Resolved[f]).who = f
         /\ ConstructOf(Resolved[f]).scope = ScopeSubTest
    /\ \A e \in Range(CaseEvents(i, "Construct")) :
         e.scope = ScopeCall => \A f \in DOMAIN Resolved : Resolved[f] # e.id

\* C20 witness: a resolved shape naming one instance first under a
\* ScopeCall name, then under a ScopeSubTest name, with two values.
C20_Witness ==
  /\ Resolved2
  /\ \E j1, j2 \in 1..Len(CurFields) :
       /\ j1 < j2
       /\ Entry(CurFields[j1]).Instance = Entry(CurFields[j2]).Instance
       /\ Entry(CurFields[j1]).Scope = ScopeCall
       /\ Entry(CurFields[j2]).Scope = ScopeSubTest
       /\ CurVals[j1] # CurVals[j2]

\* The Construct calls of instance f made under ScopeSubTest for method c.
SubTestConstructs(c, f) ==
  {q \in Pos(c, "Construct") : log[q].who = f /\ log[q].scope = ScopeSubTest}
\* The shape of test method c names a ScopeSubTest entry of instance f.
NamesUnderSubTest(c, f) ==
  /\ NumIn(GroupType(gt)[c]) = 3
  /\ \E j \in 1..Len(In(GroupType(gt)[c], 2).fields) :
       LET tag == In(GroupType(gt)[c], 2).fields[j].Tag IN
         /\ tag \in DOMAIN registeredFixtures
         /\ registeredFixtures[tag] = FixtureEntry(ScopeSubTest, f)

\* C21: the cache is empty whenever the loop is between two test cases and
\* holds only values constructed for the current case; every value given to
\* a body or to a Construct call was constructed for the same case; and an
\* instance that the shapes of two cases name under ScopeSubTest has, once
\* both bodies were invoked, one ScopeSubTest construction for each case.
C21_CachePerTestCase ==
  /\ pc \in {"loop", "done"} => Resolved = << >>
  /\ \A f \in DOMAIN Resolved :
       \E q \in Pos(i, "Construct") : log[q].id = Resolved[f] /\ log[q].who = f
  /\ \A p \in AllPos("Body") \cup AllPos("Construct") :
       \A j \in 1..Len(log[p].val) :
         \E q \in Pos(log[p].c, "Construct") : log[q].id = log[p].val[j]
  /\ \A c1, c2 \in TestMethods : \A f \in Instances :
       (/\ c1 # c2
        /\ StartsWithSubTest(c1) /\ StartsWithSubTest(c2)
        /\ NamesUnderSubTest(c1, f) /\ NamesUnderSubTest(c2, f)
        /\ Pos(c1, "Body") # {} /\ Pos(c2, "Body") # {}) =>
         /\ Cardinality(SubTestConstructs(c1, f)) = 1
         /\ Cardinality(SubTestConstructs(c2, f)) = 1

\* C21 witness: two cases whose bodies were invoked, both naming one
\* ScopeSubTest fixture, which was constructed for each of them.
C21_Witness ==
  \E c1, c2 \in TestMethods : \E f \in Instances :
    /\ c1 < c2
    /\ NamesUnderSubTest(c1, f) /\ NamesUnderSubTest(c2, f)
    /\ Pos(c1, "Body") # {} /\ Pos(c2, "Body") # {}
    /\ SubTestConstructs(c1, f) # {} /\ SubTestConstructs(c2, f) # {}

\* The sub-test of test method c was run and has returned to the loop.
Ran(c) == StartsWithSubTest(c) /\ Finished(c)
\* The events of test method c are in the order fixture construction,
\* BeforeEach, body, cleanup, AfterEach, with one BeforeEach and one
\* AfterEach, and every event of a later method comes after that AfterEach.
Bracketed(c) ==
  /\ Cardinality(Pos(c, "BeforeEach")) = 1
  /\ Cardinality(Pos(c, "AfterEach")) = 1
  /\ \A be \in Pos(c, "BeforeEach"), a \in Pos(c, "AfterEach") :
       /\ \A q \in Pos(c, "Construct") : q < be
       /\ \A b \in Pos(c, "Body") :
            /\ be < b
            /\ b < a
            /\ \A p \in Pos(c, "Destruct") : b < p /\ p < a
       /\ \A c2 \in TestMethods : c < c2 => \A p \in PosOfCase(c2) : a < p

\* C22 (the claim as stated): every test case that was run is bracketed.
C22_EveryCaseBracketed ==
  \A c \in TestMethods : Ran(c) => Bracketed(c)

\* The failures of resolution the claim names: a field naming an
\* unregistered fixture, a field without fixture tag, a field that cannot
\* be set.
ResolutionFailures == {"UnregisteredFixture", "MissingTag", "FieldNotAssignable"}
\* Resolution cannot get past this field.
BadField(field) ==
  \/ field.Tag = NoTag
  \/ field.Tag \notin DOMAIN registeredFixtures
  \/ ~field.Exported
\* How many fields up to this bad field j may have a fixture constructed:
\* the field's own fixture is constructed before the field is found not
\* to be settable.
MayConstruct(field, j) ==
  IF field.Tag # NoTag /\ field.Tag \in DOMAIN registeredFixtures
  THEN j ELSE j - 1
\* The Construct calls made for the fields of the shape of test method c.
DirectConstructs(c) ==
  {q \in Pos(c, "Construct") : log[q].caller = GroupType(gt)[c].Name}

\* C23: a failure of resolution is reported on the group's handle and is
\* the last thing that happens: the run has stopped at that case, neither
\* BeforeEach nor the body of the case was invoked, no dependency value was
\* handed over, and no fixture was constructed for a field after the first
\* field that resolution cannot get past.
C23_ResolutionFailureStopsProgress ==
  \A p \in AllPos("Fatalf") :
    log[p].who \in ResolutionFailures =>
      /\ p = Len(log)
      /\ log[p].t = 0 /\ 0 \in failed
      /\ pc = "aborted" /\ i = log[p].c
      /\ Pos(i, "BeforeEach") = {} /\ Pos(i, "Body") = {}
      /\ callParams = << >>
      /\ \A j \in 1..Len(In(GroupType(gt)[i], 2).fields) :
           BadField(In(GroupType(gt)[i], 2).fields[j]) =>
             Cardinality(DirectConstructs(i))
               <= MayConstruct(In(GroupType(gt)[i], 2).fields[j], j)

\* C23 witness: resolution stopped at a field that is not exported, after
\* the fixtures of the field before it and of that field were constructed,
\* with a field and a test case still to come.
C23_Witness ==
  /\ pc = "aborted"
  /\ gt = "UnexportedFieldTests"
  /\ log[Len(log)].who = "FieldNotAssignable"
  /\ Cardinality(DirectConstructs(i)) = 2
  /\ \E c \in TestMethods : i < c /\ StartsWithSubTest(c)

\* RunSubTests has returned, or its goroutine was ended by t.Fatalf.
RunEnded == pc \in {"done", "aborted"}

\* C24 (the claim as stated, for runs in which no body calls t.FailNow):
\* when the run has ended, every Construct call has a later Destruct call
\* of the same instance with its context.
C24_EveryConstructedValueDestructed ==
  (RunEnded /\ NoFailNow) =>
    \A q \in AllPos("Construct") : \E p \in DestructsOf(q) : q < p

\* C25 (the claim as stated): no resolution ends otherwise than by
\* returning a populated shape or by reporting a fatal failure; the
\* recursion of resolve never goes on without end.
C25_ResolutionTerminates == pc # "overflow"

\* The values constructed for test method c.
IdsOf(c) == {log[q].id : q \in Pos(c, "Construct")}
\* What the sub-test of method c holds: the contexts of its cleanup
\* closures, the values of its cache, the values of its dependency shape.
HeldBy(c) ==
  {cleanUpCbs[c][p].ctxVal : p \in 1..Len(cleanUpCbs[c])}
    \cup {Resolved[c][f] : f \in DOMAIN Resolved[c]}
    \cup (IF callParams[c] = << >> THEN {} ELSE Range(callParams[c][1]))

\* C26: with sub-tests running side by side, for every sub-test that was
\* started the Destruct calls it made are those of the fixtures constructed
\* for its case, in construction order, all of them once its body has returned and
\* AfterEach was invoked; its cleanup closures are, one for one, the
\* constructions of its case; what it holds in closures, cache and
\* dependency shape was constructed for its case, and the body is given
\* that shape; so nothing is executed by or shared with a sibling.
C26_SubTestsKeepToTheirOwn ==
  \A c \in {c1 \in 1..NumMethod(gt) : pc[c1] # "idle"} :
    /\ IsPrefix(DestructsSoFar(c), ConstructsOf(c))
    /\ Len(DestructsSoFar(c)) = k[c]
    /\ Pos(c, "AfterEach") # {} => DestructsSoFar(c) = ConstructsOf(c)
    /\ (pc[c] = "returned" /\ \A b \in Pos(c, "Body") : log[b].who # "failnow") =>
         Cardinality(Pos(c, "AfterEach")) = 1
    /\ Len(cleanUpCbs[c]) = Len(ConstructsOf(c))
    /\ \A p \in 1..Len(cleanUpCbs[c]) :
         <<cleanUpCbs[c][p].f, cleanUpCbs[c][p].ctxVal>> = ConstructsOf(c)[p]
    /\ HeldBy(c) \subseteq IdsOf(c)
    /\ \A b \in Pos(c, "Body") :
         log[b].val = (IF callParams[c] = << >> THEN << >> ELSE callParams[c][1])
    /\ \A c2 \in 1..NumMethod(gt) :
         (c2 # c /\ pc[c2] # "idle") => HeldBy(c) \cap HeldBy(c2) = {}

\* C26 witness: two sub-tests whose bodies called t.Parallel() run their
\* cleanup side by side: a Destruct call of one falls between two Destruct
\* calls of the other.
C26_Witness ==
  \E c1, c2 \in 1..NumMethod(gt) :
    /\ c1 # c2
    /\ Pos(c1, "Parallel") # {} /\ Pos(c2, "Parallel") # {}
    /\ \E p1, p3 \in Pos(c1, "Destruct") : \E p2 \in Pos(c2, "Destruct") :
         p1 < p2 /\ p2 < p3
====
